---- MODULE Spec2Model ----
(***************************************************************************)
(* Model of scripts/scil_compute_memsmt_fodf.py: the signal simulator      *)
(* single_tensor_btensor, the response estimator                          *)
(* multi_shell_fiber_response and the driver main.                         *)
(*                                                                         *)
(* Floating-point values are modelled as exact rationals extended with     *)
(* NaN and the two infinities (IEEE-754 division by zero yields them, it   *)
(* does not raise, for the numpy scalars the code divides).  exp() is kept *)
(* symbolic: a signal is  c * exp(a) / A^p  with c, a rational.            *)
(***************************************************************************)
EXTENDS Integers, Sequences, FiniteSets, TLC

VARIABLES
    st_in,      \* single_tensor_btensor: the arguments of the call
    st_out,     \* single_tensor_btensor: the outcome of the call
    msr_in,     \* multi_shell_fiber_response: the arguments of the call
    msr_out,    \* multi_shell_fiber_response: the outcome of the call
    argv,       \* main: the command line as given
    disk,       \* main: the response files read from disk
    pc,         \* main: position in the script
    args,       \* main: the parsed argparse namespace
    loc,        \* main: local variables
    io,         \* main: file I/O and library calls made so far, in order
    writes,     \* main: nib.save calls made so far, in order
    outcome     \* main: how the run ended ("" while running)

vars == <<st_in, st_out, msr_in, msr_out, argv, disk, pc, args, loc, io, writes, outcome>>
calls == <<st_in, st_out, msr_in, msr_out>>

(***************************************************************************)
(* Bounds of the model.                                                    *)
(***************************************************************************)
MaxEval == 1        \* eigenvalues range over -1..MaxEval
MaxS0 == 2          \* S0 of a response array's first row: 1..MaxS0
NumGrad == 2        \* directions in a gradient table handed to the simulator
MaxRows == 2        \* rows of a tissue response array: 1..MaxRows
MaxShells == 3      \* shells in a b-value schedule: 1..MaxShells
NumVox == 2         \* voxels of the volume-fraction array
MaxVf == 2          \* volume fractions range over -1..MaxVf

(***************************************************************************)
(* Floating-point arithmetic.                                              *)
(***************************************************************************)
RECURSIVE GCD(_, _)
GCD(a, b) == IF b = 0 THEN a ELSE GCD(b, a % b)

IAbs(x) == IF x < 0 THEN -x ELSE x

NaN == [k |-> "nan"]
Inf(s) == [k |-> "inf", s |-> s]

\* the rational n/d (d # 0) in lowest terms with a positive denominator
Rat(n, d) ==
    LET g == GCD(IAbs(n), IAbs(d))
        s == IF d < 0 THEN -1 ELSE 1
    IN  [k |-> "num", n |-> (s * n) \div g, d |-> (s * d) \div g]

Sign(x) == IF x.k = "inf" THEN x.s ELSE IF x.n > 0 THEN 1 ELSE IF x.n < 0 THEN -1 ELSE 0

FNeg(x) ==
    CASE x.k = "nan" -> NaN
      [] x.k = "inf" -> Inf(-x.s)
      [] OTHER -> Rat(-x.n, x.d)

FAdd(x, y) ==
    CASE x.k = "nan" \/ y.k = "nan" -> NaN
      [] x.k = "inf" /\ y.k = "inf" -> IF x.s = y.s THEN x ELSE NaN
      [] x.k = "inf" -> x
      [] y.k = "inf" -> y
      [] OTHER -> Rat(x.n * y.d + y.n * x.d, x.d * y.d)

FSub(x, y) == FAdd(x, FNeg(y))

FMul(x, y) ==
    CASE x.k = "nan" \/ y.k = "nan" -> NaN
      [] x.k = "inf" \/ y.k = "inf" ->
            IF Sign(x) * Sign(y) = 0 THEN NaN ELSE Inf(Sign(x) * Sign(y))
      [] OTHER -> Rat(x.n * y.n, x.d * y.d)

\* IEEE division: x/0 is NaN for x = 0 and an infinity otherwise
FDiv(x, y) ==
    CASE x.k = "nan" \/ y.k = "nan" -> NaN
      [] x.k = "inf" /\ y.k = "inf" -> NaN
      [] x.k = "inf" -> Inf(x.s * (IF Sign(y) < 0 THEN -1 ELSE 1))
      [] y.k = "inf" -> Rat(0, 1)
      [] y.n = 0 -> IF x.n = 0 THEN NaN ELSE Inf(Sign(x))
      [] OTHER -> Rat(x.n * y.d, x.d * y.n)

FAbs(x) ==
    CASE x.k = "nan" -> NaN
      [] x.k = "inf" -> Inf(1)
      [] OTHER -> Rat(IAbs(x.n), x.d)

\* x < y; every comparison with NaN is false
FLt(x, y) ==
    CASE x.k = "nan" \/ y.k = "nan" -> FALSE
      [] x.k = "inf" /\ y.k = "inf" -> x.s < y.s
      [] x.k = "inf" -> x.s < 0
      [] y.k = "inf" -> y.s > 0
      [] OTHER -> x.n * y.d < y.n * x.d

FGt(x, y) == FLt(y, x)

\* s0 * exp(a): symbolic, with 0 * exp(a) = 0, exp(-inf) = 0, exp(+inf) = inf
SZero == [k |-> "sym", c |-> Rat(0, 1), a |-> Rat(0, 1), p |-> 0]
SExpScale(s0, a) ==
    CASE s0.k = "nan" \/ a.k = "nan" -> NaN
      [] a.k = "inf" /\ a.s < 0 -> IF s0.k = "inf" THEN NaN ELSE SZero
      [] a.k = "inf" -> IF Sign(s0) = 0 THEN NaN ELSE Inf(Sign(s0))
      [] s0.k = "inf" -> s0
      [] s0.n = 0 -> SZero
      [] OTHER -> [k |-> "sym", c |-> s0, a |-> a, p |-> 0]

\* v / A, A the (positive, irrational) harmonic DC value
SDivA(v) ==
    CASE v.k = "sym" -> IF v.c.n = 0 THEN v ELSE [v EXCEPT !.p = v.p + 1]
      [] OTHER -> v

F(i) == Rat(i, 1)

(***************************************************************************)
(* single_tensor_btensor(gtab, evals, b_delta, S0)                         *)
(* gtab is [bvecs |-> sequence of integer 3-vectors, bvals |-> sequence of *)
(* floats]; a direction is given up to a positive scale, which the polar   *)
(* angle does not depend on.                                               *)
(***************************************************************************)
\* the guard of the ValueError
BDeltaOutOfRangeStrict(b_delta) ==
    ~FLt(b_delta, F(1)) \/ FLt(b_delta, Rat(-1, 2))

BDeltaOutOfRange(b_delta) ==
    FGt(b_delta, F(1)) \/ FLt(b_delta, Rat(-1, 2))

\* np.sum(evals) / 3.
DIso(evals) == FDiv(FAdd(FAdd(evals[1], evals[2]), evals[3]), F(3))

\* abs(evals - D_iso)
Dev(evals) == [i \in 1..3 |-> FAbs(FSub(evals[i], DIso(evals)))]

\* np.argmax / np.argmin: the first index holding the extreme value
ArgMax(v) ==
    CHOOSE i \in DOMAIN v :
        /\ \A j \in DOMAIN v : ~FGt(v[j], v[i])
        /\ \A j \in DOMAIN v : j < i => FLt(v[j], v[i])

ArgMin(v) ==
    CHOOSE i \in DOMAIN v :
        /\ \A j \in DOMAIN v : ~FLt(v[j], v[i])
        /\ \A j \in DOMAIN v : j < i => FGt(v[j], v[i])

DPara(evals) == evals[ArgMax(Dev(evals))]
DPerp(evals) == evals[ArgMin(Dev(evals))]

\* (D_para - D_perp) / (3 * D_iso)
DDelta(evals) ==
    FDiv(FSub(DPara(evals), DPerp(evals)), FMul(F(3), DIso(evals)))

\* cos(theta)^2 for theta = arctan2(sqrt(g0^2 + g1^2), g2); arctan2(0, 0) = 0
CosSq(g) ==
    LET n2 == g[1] * g[1] + g[2] * g[2] + g[3] * g[3]
    IN  IF n2 = 0 THEN F(1) ELSE Rat(g[3] * g[3], n2)

\* P_2 = (3 * cos(theta)^2 - 1) / 2
P2(g) == FDiv(FSub(FMul(F(3), CosSq(g)), F(1)), F(2))

\* -b * D_iso * (1 + 2 * b_delta * D_delta * P_2), evaluated left to right
ExpArgMisgrouped(b, evals, b_delta, g) ==
    FMul(FMul(FNeg(b), DIso(evals)),
         FMul(FAdd(F(1), FMul(FMul(F(2), b_delta), DDelta(evals))), P2(g)))

ExpArg(b, evals, b_delta, g) ==
    FMul(FMul(FNeg(b), DIso(evals)),
         FAdd(F(1), FMul(FMul(FMul(F(2), b_delta), DDelta(evals)), P2(g))))

\* S[i] = S0 * np.exp(...)
SignalAt(gtab, i, evals, b_delta, S0) ==
    SExpScale(S0, ExpArg(gtab.bvals[i], evals, b_delta, gtab.bvecs[i]))

single_tensor_btensor(gtab, evals, b_delta, S0) ==
    IF BDeltaOutOfRange(b_delta)
    THEN [status |-> "ValueError", S |-> <<>>]
    ELSE [status |-> "ok",
          S |-> [i \in 1..Len(gtab.bvecs) |-> SignalAt(gtab, i, evals, b_delta, S0)]]

(***************************************************************************)
(* multi_shell_fiber_response(sh_order, bvals, wm_rf, gm_rf, csf_rf,       *)
(*                            b_deltas, sphere, tol)                       *)
(* A response array is a sequence of rows of 4 floats; Python's 0-based    *)
(* index i is the model's i + 1.  The harmonic basis B and the             *)
(* least-squares solve are the library's: a white-matter row is kept as    *)
(* the simulated signal the solve is given.                                *)
(***************************************************************************)
Tol == 20

\* big_sphere.vertices: the angular sampling, as direction vectors
SphereVerts == << <<0, 0, 1>>, <<1, 0, 0>>, <<1, 1, 1>> >>

\* GradientTable(big_sphere.vertices * bvalue): every direction carries the
\* b-value |vertex * bvalue| = bvalue, and the unit vector of a zero
\* gradient is the zero vector
GradientTable(bvalue) ==
    [bvecs |-> [i \in 1..Len(SphereVerts) |->
                    IF bvalue = 0 THEN <<0, 0, 0>> ELSE SphereVerts[i]],
     bvals |-> [i \in 1..Len(SphereVerts) |-> F(bvalue)]]

\* the number x as a signal value
SNum(x) == SExpScale(x, F(0))

\* rf[i, 3] * np.exp(-bvalue * rf[i, 0]) / A   (row is rf[i])
Attenuated(row, bvalue) ==
    SDivA(SExpScale(row[4], FMul(FNeg(F(bvalue)), row[1])))

HasB0(bvals, tol) == bvals[1] < tol

\* the b0 row: response[0, :]
B0RowAttenuated(bvals, wm_rf, gm_rf, csf_rf) ==
    [csf |-> Attenuated(csf_rf[1], bvals[1]),
     gm  |-> Attenuated(gm_rf[1], bvals[1]),
     wm  |-> single_tensor_btensor(GradientTable(0),
                 SubSeq(wm_rf[1], 1, 3), F(1), wm_rf[1][4]).S]

B0Row(bvals, wm_rf, gm_rf, csf_rf) ==
    [csf |-> SDivA(SNum(csf_rf[1][4])),
     gm  |-> SDivA(SNum(gm_rf[1][4])),
     wm  |-> single_tensor_btensor(GradientTable(0),
                 SubSeq(wm_rf[1], 1, 3), F(1), wm_rf[1][4]).S]

\* iteration i (0-based) of "for i, bvalue in enumerate(bvals[1:])":
\* the exception it raises, or "ok"
ShellStatus(i, bvalue, wm_rf, gm_rf, csf_rf, b_deltas) ==
    IF i + 1 > Len(wm_rf) \/ i + 1 > Len(b_deltas) THEN "IndexError"
    ELSE IF single_tensor_btensor(GradientTable(bvalue), SubSeq(wm_rf[i + 1], 1, 3),
                b_deltas[i + 1], wm_rf[i + 1][4]).status = "ValueError"
         THEN "ValueError"
    ELSE IF i + 1 > Len(gm_rf) \/ i + 1 > Len(csf_rf) THEN "IndexError"
    ELSE "ok"

\* the row it stores: response[i + 1, :]
ShellRow(i, bvalue, wm_rf, gm_rf, csf_rf, b_deltas) ==
    [csf |-> Attenuated(csf_rf[i + 1], bvalue),
     gm  |-> Attenuated(gm_rf[i + 1], bvalue),
     wm  |-> single_tensor_btensor(GradientTable(bvalue),
                 SubSeq(wm_rf[i + 1], 1, 3), b_deltas[i + 1], wm_rf[i + 1][4]).S]

\* the iterations that raise
FailingShells(bvals, wm_rf, gm_rf, csf_rf, b_deltas) ==
    {i \in 0..(Len(bvals) - 2) :
        ShellStatus(i, bvals[i + 2], wm_rf, gm_rf, csf_rf, b_deltas) # "ok"}

SetMin(S) == CHOOSE x \in S : \A y \in S : x <= y

\* the branch taken when bvals[0] < tol
WithB0(bvals, wm_rf, gm_rf, csf_rf, b_deltas) ==
    LET bad == FailingShells(bvals, wm_rf, gm_rf, csf_rf, b_deltas)
    IN  IF bad # {}
        THEN [status |-> ShellStatus(SetMin(bad), bvals[SetMin(bad) + 2],
                                     wm_rf, gm_rf, csf_rf, b_deltas),
              warned |-> FALSE, response |-> <<>>, S0 |-> <<>>]
        ELSE [status |-> "returned", warned |-> FALSE,
              response |-> [r \in 1..Len(bvals) |->
                  IF r = 1 THEN B0Row(bvals, wm_rf, gm_rf, csf_rf)
                  ELSE ShellRow(r - 2, bvals[r], wm_rf, gm_rf, csf_rf, b_deltas)],
              S0 |-> <<csf_rf[1][4], gm_rf[1][4], wm_rf[1][4]>>]

\* the branch taken otherwise: the name "warnings" is bound nowhere in the
\* module, so evaluating warnings.warn raises NameError
WithoutB0(bvals, wm_rf, gm_rf, csf_rf, b_deltas) ==
    [status |-> "NameError", warned |-> FALSE, response |-> <<>>, S0 |-> <<>>]

multi_shell_fiber_response(bvals, wm_rf, gm_rf, csf_rf, b_deltas, tol) ==
    IF HasB0(bvals, tol)
    THEN WithB0(bvals, wm_rf, gm_rf, csf_rf, b_deltas)
    ELSE WithoutB0(bvals, wm_rf, gm_rf, csf_rf, b_deltas)

(***************************************************************************)
(* Inputs of the two functions.                                            *)
(***************************************************************************)
GradBVals == {F(0), F(1)}
EvalVals == {F(i) : i \in -1..MaxEval}
BDeltaVals == {Rat(i, 4) : i \in {-3, -2, -1, 0, 2, 4, 5}}
Dirs == {<<0, 0, 1>>, <<1, 0, 0>>, <<1, 1, 1>>}
GradTables ==
    [bvecs : [1..NumGrad -> Dirs], bvals : [1..NumGrad -> GradBVals]]

StInputs ==
    [gtab : GradTables, evals : [1..3 -> EvalVals], b_delta : BDeltaVals,
     S0 : {F(0), F(2)}]

BValChoices == {0, 10, 1000, 2000}
Schedules ==
    {s \in UNION {[1..n -> BValChoices] : n \in 1..MaxShells} :
        \A i, j \in DOMAIN s : i < j => s[i] < s[j]}

\* a response array of n rows: row r holds the eigenvalues (r + 1, 1, 1) and
\* the S0 value s + r - 1
RfArray(n, s) == [r \in 1..n |-> <<F(r + 1), F(1), F(1), F(s + r - 1)>>]
RfArrays == {RfArray(n, s) : n \in 1..MaxRows, s \in 1..MaxS0}
BDeltaChoices == {F(1), F(0), F(2)}

MsrInputs ==
    {m \in [bvals : Schedules, wm_rf : RfArrays, gm_rf : RfArrays,
            csf_rf : RfArrays,
            b_deltas : UNION {[1..n -> BDeltaChoices] : n \in 0..(MaxShells - 1)}] :
        Len(m.b_deltas) = Len(m.bvals) - 1}

None == [status |-> "none"]

(***************************************************************************)
(* The calls.                                                              *)
(***************************************************************************)
CallSingleTensor ==
    /\ st_out = None
    /\ st_in # None
    /\ st_out' = single_tensor_btensor(st_in.gtab, st_in.evals, st_in.b_delta, st_in.S0)
    /\ UNCHANGED <<st_in, msr_in, msr_out, argv, disk, pc, args, loc, io, writes, outcome>>

CallMultiShell ==
    /\ msr_out = None
    /\ msr_in # None
    /\ msr_out' = multi_shell_fiber_response(msr_in.bvals, msr_in.wm_rf,
                      msr_in.gm_rf, msr_in.csf_rf, msr_in.b_deltas, Tol)
    /\ UNCHANGED <<st_in, st_out, msr_in, argv, disk, pc, args, loc, io, writes, outcome>>

MainIdle ==
    /\ pc = "idle" /\ argv = <<>> /\ args = <<>> /\ disk = <<>> /\ loc = <<>>
    /\ io = <<>> /\ writes = <<>> /\ outcome = ""

InitSignal ==
    /\ st_in \in StInputs /\ st_out = None
    /\ msr_in = None /\ msr_out = None
    /\ MainIdle

InitResponse ==
    /\ msr_in \in MsrInputs /\ msr_out = None
    /\ st_in = None /\ st_out = None
    /\ MainIdle

SpecSignal == InitSignal /\ [][CallSingleTensor]_vars
SpecResponse == InitResponse /\ [][CallMultiShell]_vars

(***************************************************************************)
(* main(): the driver.  pc is the position in the script; one action per   *)
(* block of statements.  Calls of helpers and libraries are recorded in    *)
(* io in the order they are made, nib.save calls also in writes.           *)
(* The logging.warning of lines 265-270 writes a log line only, and the    *)
(* tournier07 conversion of lines 309-311, 317-320 and 326-329 changes the *)
(* coefficients saved, not whether or under which name they are saved:     *)
(* neither is part of the state.                                           *)
(***************************************************************************)
Outputs == <<"wm_fodf", "gm_fodf", "csf_fodf", "vf", "vf_rgb">>
OutputSet == {Outputs[i] : i \in 1..Len(Outputs)}

DefaultName ==
    [wm_fodf |-> "wm_fodf.nii.gz", gm_fodf |-> "gm_fodf.nii.gz",
     csf_fodf |-> "csf_fodf.nii.gz", vf |-> "vf.nii.gz", vf_rgb |-> "vf_rgb.nii.gz"]

\* a name the user may give a file flag
UserName ==
    [wm_fodf |-> "my_wm.nii.gz", gm_fodf |-> "my_gm.nii.gz",
     csf_fodf |-> "my_csf.nii.gz", vf |-> "my_vf.nii.gz", vf_rgb |-> "my_rgb.nii.gz"]

\* the namespace parse_args returns: the file flags default to ''
ArgSpace ==
    [not_all : BOOLEAN, mask : BOOLEAN,
     flags : {f \in [OutputSet -> {""} \cup {UserName[k] : k \in OutputSet}] :
                \A k \in OutputSet : f[k] \in {"", UserName[k]}}]

\* "if not args.not_all:  args.x = args.x or '<default>'"
WithDefaultsForced(a) ==
    IF ~a.not_all
    THEN [a EXCEPT !.flags = [k \in OutputSet |-> DefaultName[k]]]
    ELSE a

WithDefaults(a) ==
    IF ~a.not_all
    THEN [a EXCEPT !.flags =
            [k \in OutputSet |-> IF a.flags[k] # "" THEN a.flags[k] ELSE DefaultName[k]]]
    ELSE a

ArgList(a) == [i \in 1..Len(Outputs) |-> a.flags[Outputs[i]]]

\* "args.not_all and not any(arglist)"
NoOutputSelectedInverted(a) ==
    ~a.not_all /\ ~(\E i \in 1..Len(Outputs) : ArgList(a)[i] # "")

NoOutputSelected(a) ==
    a.not_all /\ ~(\E i \in 1..Len(Outputs) : ArgList(a)[i] # "")

\* a response text file of R rows and C columns; the entry of row r and
\* column c (1-based) is r + c
FrfFile(R, C) ==
    [rows |-> R, cols |-> C,
     flat |-> [j \in 1..(R * C) |-> F(((j - 1) \div C) + 1 + ((j - 1) % C) + 1)]]

FileShapes == {<<1, 4>>, <<2, 4>>, <<1, 3>>, <<1, 1>>, <<4, 1>>}
FrfFiles == {FrfFile(sh[1], sh[2]) : sh \in FileShapes}

\* np.loadtxt(path): ndmin = 0 squeezes the axes of length one
loadtxt(file) ==
    [shape |-> IF file.rows = 1 /\ file.cols = 1 THEN <<>>
               ELSE IF file.rows = 1 THEN <<file.cols>>
               ELSE IF file.cols = 1 THEN <<file.rows>>
               ELSE <<file.rows, file.cols>>,
     flat |-> file.flat]

\* "if len(x.shape) == 1:  x = np.reshape(x, (1,) + x.shape)"
ReshapeTrailing(a) ==
    IF Len(a.shape) = 1 THEN [a EXCEPT !.shape = a.shape \o <<1>>] ELSE a

ReshapeIfOneDim(a) ==
    IF Len(a.shape) = 1 THEN [a EXCEPT !.shape = <<1>> \o a.shape] ELSE a

\* "if not x.shape[1] == 4: raise ValueError(...)": shape[1] of an array of
\* fewer than two dimensions raises IndexError
ColumnCheck(a) ==
    IF Len(a.shape) < 2 THEN "IndexError"
    ELSE IF a.shape[2] # 4 THEN "ValueError"
    ELSE "ok"

FormatError ==
    [wm |-> "ValueError: WM frf file did not contain 4 elements. Invalid or deprecated FRF format",
     gm |-> "ValueError: GM frf file did not contain 4 elements. Invalid or deprecated FRF format",
     csf |-> "ValueError: CSF frf file did not contain 4 elements. Invalid or deprecated FRF format"]

Tissues == <<"wm", "gm", "csf">>

\* the three checks in order: the first exception raised, or "ok"
FrfCheck(frf) ==
    LET bad == {i \in 1..3 : ColumnCheck(frf[Tissues[i]]) # "ok"}
    IN  IF bad = {} THEN "ok"
        ELSE IF ColumnCheck(frf[Tissues[SetMin(bad)]]) = "IndexError"
             THEN "IndexError: tuple index out of range"
        ELSE FormatError[Tissues[SetMin(bad)]]

\* the rows of a two-dimensional array
Rows(a) ==
    [r \in 1..a.shape[1] |->
        SubSeq(a.flat, (r - 1) * a.shape[2] + 1, r * a.shape[2])]

\* what generate_btensor_input returns: the unique b-values and their b-deltas
MainSchedules ==
    {[ubvals |-> s, ubdeltas |-> [i \in DOMAIN s |-> F(1)]] :
        s \in {<<0, 1000>>, <<0, 1000, 2000>>, <<1000, 2000>>}}

\* ubdeltas[1:]
Tail1(s) == SubSeq(s, 2, Len(s))

VfArrays == [1..NumVox -> {F(i) : i \in -1..MaxVf}]

\* np.max of an array of numbers
NpMax(v) == v[CHOOSE i \in DOMAIN v : \A j \in DOMAIN v : ~FGt(v[j], v[i])]

\* np.clip(x, lo, hi) = minimum(maximum(x, lo), hi): NaN stays NaN
ClipUpperOnly(x, lo, hi) ==
    IF x.k = "nan" THEN x ELSE IF FGt(x, hi) THEN hi ELSE x

Clip(x, lo, hi) ==
    IF x.k = "nan" THEN x
    ELSE IF FLt(x, lo) THEN lo
    ELSE IF FGt(x, hi) THEN hi
    ELSE x

\* vf / np.max(vf) * 255, then np.clip(., 0, 255)
VfRgb(vf) ==
    [i \in DOMAIN vf |->
        Clip(FMul(FDiv(vf[i], NpMax(vf)), F(255)), F(0), F(255))]

\* x.astype(np.uint8): a value in [0, 256) is truncated; the conversion of
\* NaN or of a value out of range is undefined in C and may yield any uint8,
\* of which the ends and one interior value of the range are drawn
CastUndefined == {0, 128, 255}
AsUint8(x) ==
    IF x.k = "num" /\ x.n >= 0 /\ x.n < 256 * x.d
    THEN {x.n \div x.d}
    ELSE CastUndefined

\* the arrays v.astype(np.uint8) may be
Uint8Arrays(v) ==
    {d \in [DOMAIN v -> UNION {AsUint8(v[i]) : i \in DOMAIN v}] :
        \A i \in DOMAIN v : d[i] \in AsUint8(v[i])}

\* before the files are read
NoFile == [rows |-> 0, cols |-> 0, flat |-> <<>>]
NoFiles == [wm |-> NoFile, gm |-> NoFile, csf |-> NoFile]
NoArray == [shape |-> <<0>>, flat |-> <<>>]
Unset == <<>>
LocInit ==
    [arglist |-> Unset, ubvals |-> Unset, ubdeltas |-> Unset,
     frf |-> [wm |-> NoArray, gm |-> NoArray, csf |-> NoArray],
     response |-> Unset, vf |-> Unset, vf_rgb |-> Unset]

NoOutputError ==
    "parser.error: When using --not_all, you need to specify at least one file to output."
MaskError == "ValueError: Mask is not the same shape as data."
InputMissing == "parser.error: input file missing"
OutputExists == "parser.error: output file exists"

Exit(how) == pc' = "exit" /\ outcome' = how

\* lines 212-217
SetDefaults ==
    /\ pc = "start"
    /\ args' = WithDefaults(args)
    /\ pc' = "check_flags"
    /\ UNCHANGED <<calls, argv, disk, loc, io, writes, outcome>>

\* lines 219-222
CheckOutputFlags ==
    /\ pc = "check_flags"
    /\ loc' = [loc EXCEPT !.arglist = ArgList(args)]
    /\ IF NoOutputSelected(args)
       THEN Exit(NoOutputError)
       ELSE pc' = "assert_files" /\ UNCHANGED outcome
    /\ UNCHANGED <<calls, argv, disk, args, io, writes>>

\* lines 224-230: each helper ends the run through parser.error when its
\* check fails
AssertFiles ==
    /\ pc = "assert_files"
    /\ \/ /\ io' = io \o <<"assert_inputs_exist">>
          /\ Exit(InputMissing)
       \/ /\ io' = io \o <<"assert_inputs_exist", "assert_outputs_exist">>
          /\ Exit(OutputExists)
       \/ /\ io' = io \o <<"assert_inputs_exist", "assert_outputs_exist">>
          /\ pc' = "load" /\ UNCHANGED outcome
    /\ UNCHANGED <<calls, argv, disk, args, loc, writes>>

\* lines 233-252
LoadData ==
    /\ pc = "load"
    /\ \E sch \in MainSchedules, wm \in FrfFiles, gm \in FrfFiles, csf \in FrfFiles :
          /\ disk' = [wm |-> wm, gm |-> gm, csf |-> csf]
          /\ loc' = [loc EXCEPT !.ubvals = sch.ubvals, !.ubdeltas = sch.ubdeltas,
                                !.frf = [wm |-> loadtxt(wm), gm |-> loadtxt(gm),
                                         csf |-> loadtxt(csf)]]
    /\ io' = io \o <<"generate_btensor_input", "extract_affine",
                     "np.loadtxt(wm_frf)", "np.loadtxt(gm_frf)", "np.loadtxt(csf_frf)">>
    /\ pc' = "mask"
    /\ UNCHANGED <<calls, argv, args, writes, outcome>>

\* lines 255-260
CheckMask ==
    /\ pc = "mask"
    /\ IF ~args.mask
       THEN /\ pc' = "reshape" /\ UNCHANGED <<io, outcome>>
       ELSE /\ io' = io \o <<"nib.load(mask)">>
            /\ \/ Exit(MaskError)
               \/ pc' = "reshape" /\ UNCHANGED outcome
    /\ UNCHANGED <<calls, argv, disk, args, loc, writes>>

\* lines 273-278
ReshapeFrf ==
    /\ pc = "reshape"
    /\ loc' = [loc EXCEPT !.frf = [t \in DOMAIN loc.frf |-> ReshapeIfOneDim(loc.frf[t])]]
    /\ pc' = "check_frf"
    /\ UNCHANGED <<calls, argv, disk, args, io, writes, outcome>>

\* lines 280-288
CheckFrf ==
    /\ pc = "check_frf"
    /\ IF FrfCheck(loc.frf) = "ok"
       THEN pc' = "response" /\ UNCHANGED outcome
       ELSE Exit(FrfCheck(loc.frf))
    /\ UNCHANGED <<calls, argv, disk, args, loc, io, writes>>

\* lines 289-293: an exception of the estimator ends the run
ComputeResponse ==
    /\ pc = "response"
    /\ LET r == multi_shell_fiber_response(loc.ubvals, Rows(loc.frf.wm),
                    Rows(loc.frf.gm), Rows(loc.frf.csf), Tail1(loc.ubdeltas), Tol)
       IN  /\ io' = io \o <<"multi_shell_fiber_response">>
           /\ IF r.status = "returned"
              THEN /\ loc' = [loc EXCEPT !.response = r.response]
                   /\ pc' = "fit" /\ UNCHANGED outcome
              ELSE /\ Exit(r.status) /\ UNCHANGED loc
    /\ UNCHANGED <<calls, argv, disk, args, writes>>

\* lines 295-304: the fit's volume fractions are the library's result
Fit ==
    /\ pc = "fit"
    /\ \E vf \in VfArrays : loc' = [loc EXCEPT !.vf = vf]
    /\ io' = io \o <<"get_sphere", "MultiShellDeconvModel", "fit_from_model">>
    /\ pc' = "save"
    /\ UNCHANGED <<calls, argv, disk, args, writes, outcome>>

\* "if args.<out>:  nib.save(nib.Nifti1Image(data, affine), args.<out>)"
SaveIfSelected(a, out, data) ==
    IF a.flags[out] # ""
    THEN <<[out |-> out, name |-> a.flags[out], data |-> data]>>
    ELSE <<>>

\* lines 306-342: the five outputs in the order of the script
SaveResults ==
    /\ pc = "save"
    /\ \E rgb \in (IF args.flags["vf_rgb"] # "" THEN Uint8Arrays(VfRgb(loc.vf)) ELSE {<<>>}) :
          /\ writes' = writes
                \o SaveIfSelected(args, "wm_fodf", "shm_coeff.astype(float32)")
                \o SaveIfSelected(args, "gm_fodf", "all_shm_coeff[..., 1].astype(float32)")
                \o SaveIfSelected(args, "csf_fodf", "all_shm_coeff[..., 0].astype(float32)")
                \o SaveIfSelected(args, "vf", loc.vf)
                \o SaveIfSelected(args, "vf_rgb", rgb)
          /\ loc' = IF args.flags["vf_rgb"] # ""
                    THEN [loc EXCEPT !.vf_rgb = VfRgb(loc.vf)] ELSE loc
    /\ io' = io \o [i \in 1..(Len(writes') - Len(writes)) |-> "nib.save"]
    /\ Exit("done")
    /\ UNCHANGED <<calls, argv, disk, args>>

Init ==
    /\ pc = "start"
    /\ argv \in ArgSpace
    /\ args = argv
    /\ disk = NoFiles
    /\ loc = LocInit
    /\ io = <<>> /\ writes = <<>> /\ outcome = ""
    /\ st_in = None /\ st_out = None /\ msr_in = None /\ msr_out = None

Next ==
    \/ SetDefaults \/ CheckOutputFlags \/ AssertFiles \/ LoadData \/ CheckMask
    \/ ReshapeFrf \/ CheckFrf \/ ComputeResponse \/ Fit
    \/ SaveResults

Spec == Init /\ [][Next]_vars

(***************************************************************************)
(* Properties.                                                             *)
(***************************************************************************)
UserGaveNoOutput == \A k \in OutputSet : argv.flags[k] = ""

\* the run did not end before the response-function arrays were reshaped
PastReshape ==
    \/ pc \in {"check_frf", "response", "fit", "save"}
    \/ pc = "exit" /\ outcome \notin {NoOutputError, InputMissing, OutputExists, MaskError}

\* the run evaluated the three column checks
PastFrfCheck ==
    \/ pc \in {"response", "fit", "save"}
    \/ pc = "exit" /\ outcome \notin {NoOutputError, InputMissing, OutputExists, MaskError}

\* C1: with --not_all and no output flag given, the run ends in the parser
\* error of the output selection, and no helper, load, estimator, fit or
\* save call is made at any point of the run.
C1_ParserErrorBeforeIO ==
    (argv.not_all /\ UserGaveNoOutput) =>
        /\ io = <<>> /\ writes = <<>>
        /\ pc \in {"start", "check_flags", "exit"}
        /\ pc = "exit" => outcome = NoOutputError

C1_Witness ==
    pc = "exit" /\ argv.not_all /\ UserGaveNoOutput /\ outcome = NoOutputError

\* the name output k is to be written under, "" when it is not to be written
ExpectedName(k) ==
    IF argv.flags[k] # "" THEN argv.flags[k]
    ELSE IF argv.not_all THEN "" ELSE DefaultName[k]

ExpectedOutputs == {k \in OutputSet : ExpectedName(k) # ""}

\* C2: a completed run has made exactly one save per output that is
\* selected (all five without --not_all, the flagged ones with it), under
\* the user's name for it or else its default name, and no other save.
C2_OutputsFollowFlags ==
    outcome = "done" =>
        /\ Len(writes) = Cardinality(ExpectedOutputs)
        /\ ~argv.not_all => Len(writes) = 5
        /\ \A k \in ExpectedOutputs :
              \E i \in 1..Len(writes) :
                  writes[i].out = k /\ writes[i].name = ExpectedName(k)
        /\ \A i \in 1..Len(writes) : writes[i].out \in ExpectedOutputs

C2_Witness ==
    /\ outcome = "done" /\ ~argv.not_all /\ Len(writes) = 5
    /\ argv.flags["vf"] # "" /\ argv.flags["wm_fodf"] = ""

\* C3 (as claimed): in a run that reaches the column checks, a response
\* file whose rows do not hold exactly 4 values ends the run with the
\* format error, and the estimator is never called.
C3_Claim ==
    \A i \in 1..3 :
        (PastFrfCheck /\ disk[Tissues[i]].cols # 4) =>
            /\ pc = "exit"
            /\ outcome \in {FormatError[Tissues[j]] : j \in 1..3}

\* C4: a b_delta above 1 or below -0.5 ends the call with ValueError and
\* no signal value; a b_delta in [-0.5, 1] does not raise it.
C4_BDeltaRange ==
    st_out # None =>
        IF FGt(st_in.b_delta, F(1)) \/ FLt(st_in.b_delta, Rat(-1, 2))
        THEN st_out.status = "ValueError" /\ st_out.S = <<>>
        ELSE st_out.status = "ok" /\ Len(st_out.S) = NumGrad

C4_Witness ==
    /\ st_out # None /\ st_out.status = "ok"
    /\ st_in.b_delta = F(1)

\* C5 (as claimed): without a b0 shell the estimator warns and returns a
\* response with one row per shell.
C5_Claim ==
    (msr_out # None /\ ~HasB0(msr_in.bvals, Tol)) =>
        /\ msr_out.status = "returned"
        /\ msr_out.warned
        /\ Len(msr_out.response) = Len(msr_in.bvals)

\* C6 (as claimed): with one row per tissue and a b0 shell followed by at
\* least two shells the estimator returns a row for every shell.
C6_Claim ==
    (/\ msr_out # None /\ HasB0(msr_in.bvals, Tol) /\ Len(msr_in.bvals) >= 3
     /\ Len(msr_in.wm_rf) = 1 /\ Len(msr_in.gm_rf) = 1 /\ Len(msr_in.csf_rf) = 1
     /\ \A i \in DOMAIN msr_in.b_deltas : ~BDeltaOutOfRange(msr_in.b_deltas[i])) =>
        /\ msr_out.status = "returned"
        /\ Len(msr_out.response) = Len(msr_in.bvals)

\* C7: a response file of one row of 4 values is a (1, 4) array from the
\* reshape on, for each tissue, and its column check never raises the
\* format error.
C7_SingleRowReshaped ==
    \A i \in 1..3 :
        (disk[Tissues[i]].rows = 1 /\ disk[Tissues[i]].cols = 4) =>
            /\ PastReshape => loc.frf[Tissues[i]].shape = <<1, 4>>
            /\ outcome # FormatError[Tissues[i]]

C7_Witness ==
    /\ pc = "response"
    /\ \A i \in 1..3 : disk[Tissues[i]].rows = 1 /\ disk[Tissues[i]].cols = 4
    /\ \A i \in 1..3 : loc.frf[Tissues[i]].shape = <<1, 4>>

RgbWrites == {i \in 1..Len(writes) : writes[i].out = "vf_rgb"}

\* C8: every value of a written RGB volume is in 0..255, and the value
\* handed to the uint8 conversion is the scaled fraction clipped to
\* [0, 255] (or NaN, when the maximum is zero), so the conversion never
\* wraps a number.
C8_RgbInRange ==
    \A w \in RgbWrites : \A i \in 1..NumVox :
        /\ writes[w].data[i] \in 0..255
        /\ LET x == loc.vf_rgb[i]
           IN  \/ x.k = "nan"
               \/ /\ x.k = "num" /\ ~FLt(x, F(0)) /\ ~FGt(x, F(255))
                  /\ writes[w].data[i] = x.n \div x.d

C8_Witness ==
    /\ RgbWrites # {}
    /\ NpMax(loc.vf) = F(0)
    /\ \E i \in 1..NumVox : loc.vf[i] = F(-1)

\* C9: the b0 row of a returned response has the GM coefficient gm S0 / A
\* and the CSF coefficient csf S0 / A, S0 the fourth value of the tissue's
\* first row, whatever the b-values and b-deltas.
C9_B0RowCoefficients ==
    (msr_out # None /\ msr_out.status = "returned") =>
        /\ HasB0(msr_in.bvals, Tol)
        /\ msr_out.response[1].gm =
              [k |-> "sym", c |-> msr_in.gm_rf[1][4], a |-> F(0), p |-> 1]
        /\ msr_out.response[1].csf =
              [k |-> "sym", c |-> msr_in.csf_rf[1][4], a |-> F(0), p |-> 1]

C9_Witness ==
    /\ msr_out # None /\ msr_out.status = "returned"
    /\ msr_in.bvals[1] = 10 /\ Len(msr_in.bvals) = 3
    /\ msr_in.b_deltas = <<F(0), F(1)>>

\* the mean eigenvalue, and the signal S0 * exp(-b * D_iso)
MeanEval(evals) == Rat(evals[1].n + evals[2].n + evals[3].n, 3)
IsotropicSignal(i) ==
    SExpScale(st_in.S0, FMul(FNeg(st_in.gtab.bvals[i]), MeanEval(st_in.evals)))

\* C10 (as claimed): for b_delta = 0 every signal value is
\* S0 * exp(-b * D_iso), for every eigenvalue triple.
C10_Claim ==
    (st_out # None /\ st_in.b_delta = F(0)) =>
        /\ st_out.status = "ok"
        /\ \A i \in 1..NumGrad : st_out.S[i] = IsotropicSignal(i)

\* C10 (amended): for b_delta = 0 and eigenvalues of nonzero mean every
\* signal value is S0 * exp(-b * D_iso), so two directions of the same
\* b-value get the same signal.
C10_IsotropicNonzeroMean ==
    (st_out # None /\ st_in.b_delta = F(0) /\ MeanEval(st_in.evals) # F(0)) =>
        /\ st_out.status = "ok"
        /\ \A i \in 1..NumGrad : st_out.S[i] = IsotropicSignal(i)
        /\ \A i, j \in 1..NumGrad :
              st_in.gtab.bvals[i] = st_in.gtab.bvals[j] => st_out.S[i] = st_out.S[j]

C10_Witness ==
    /\ st_out # None /\ st_in.b_delta = F(0)
    /\ st_in.evals = <<F(1), F(0), F(0)>> /\ st_in.S0 = F(2)
    /\ st_in.gtab.bvecs[1] = <<0, 0, 1>> /\ st_in.gtab.bvecs[2] = <<1, 0, 0>>
    /\ st_in.gtab.bvals[1] = F(1) /\ st_in.gtab.bvals[2] = F(1)
    /\ st_out.S[1] = st_out.S[2]

====
